---- MODULE Spec2Model ----
(***************************************************************************)
(* A model of "src/turn 1/model_a.py": process_batch fans                  *)
(* process_with_retries_and_circuit_breaker out over a list of items       *)
(* under one asyncio.Semaphore and joins the tasks with asyncio.gather.    *)
(*                                                                         *)
(* One action is one uninterrupted run of a coroutine between two awaits   *)
(* (asyncio switches tasks only at an await).                              *)
(***************************************************************************)
EXTENDS Integers, Sequences, FiniteSets

\* ---------------------------------------------------------------- bounds
MaxItems == 2
MaxPool == 2
LowThreshold == 1

\* ------------------------------------------------------ program constants
\* model_a.py:13-15, the defaults of POOL_SIZE, RETRY_COUNT and FAILURE_THRESHOLD
DEFAULT_POOL_SIZE == 10
DEFAULT_RETRY_COUNT == 3
DEFAULT_FAILURE_THRESHOLD == 5

VARIABLES
    config,             \* what config.json holds when main opens it (line 79)
    config_log,         \* level of the log line of the config load (lines 86, 88)
    POOL_SIZE,          \* module global, line 13 / 82
    RETRY_COUNT,        \* module global, line 14 / 83
    FAILURE_THRESHOLD,  \* module global, line 15 / 84
    items,              \* the argument of process_batch
    api_fails,          \* per item: how many leading attempts of the simulated
                        \* API call (line 26) raise before one returns
    sem,                \* asyncio.Semaphore value: free permits
    pc,                 \* per task: where the coroutine is suspended / how it ended
    attempt,            \* per task: the loop variable _ of line 43
    failure_count,      \* per task: local of line 40
    circuit_open,       \* per task: local of line 41
    ret,                \* per task: the value the coroutine returned
    calls,              \* per task: do_api_call invocations started (history)
    sleeps,             \* per task: backoff durations slept, in order (history)
    trip_logs,          \* number of "Circuit opened ..." log lines (line 56)
    pb,                 \* process_batch: "running", "returned" or "raised"
    results,            \* the list process_batch returned
    main_out,           \* how main ended: "saved", "warned", "failed", "crashed"
    saved               \* what save_results wrote to results.json (line 72)

vars == <<config, config_log, POOL_SIZE, RETRY_COUNT, FAILURE_THRESHOLD, items,
          api_fails, sem, pc, attempt, failure_count, circuit_open, ret, calls,
          sleeps, trip_logs, pb, results, main_out, saved>>

\* ------------------------------------------------------------ data values
None == [tag |-> "None"]

\* config.json: absent, not JSON, JSON that is no object (a list, a number, a
\* string, null), or an object holding any of the three settings
ConfigKeys == {"pool_size", "retry_count", "failure_threshold"}

ConfigValues(key) ==
    IF key = "pool_size" THEN 1..MaxPool
    ELSE IF key = "retry_count" THEN 0..DEFAULT_RETRY_COUNT
    ELSE {LowThreshold, DEFAULT_FAILURE_THRESHOLD}

ConfigObjects ==
    UNION { {f \in [K -> 0..DEFAULT_FAILURE_THRESHOLD] :
                \A key \in K : f[key] \in ConfigValues(key)} :
            K \in SUBSET ConfigKeys }

ConfigFiles ==
    {[kind |-> k, obj |-> <<>>] : k \in {"missing", "invalid_json", "not_object"}}
        \cup {[kind |-> "object", obj |-> f] : f \in ConfigObjects}

\* lines 82-84: config.get(key, default)
ConfigGet(cfg, key, default) ==
    IF cfg.kind = "object" /\ key \in DOMAIN cfg.obj THEN cfg.obj[key] ELSE default

\* a filter that keeps every entry
KeepAll(rs) == rs

\* line 94: [r for r in results if r]; None is falsy, the dict of a success truthy
FilterResults(rs) == SelectSeq(rs, LAMBDA r : r # None)

WellFormed == {"id", "data"}
KeySets == {{"id", "data"}, {"data"}, {"id"}}

\* main, line 90: {"id": i, "data": f"test_data_{i}"}; a malformed item lacks a key
Item(pos, keys) == [keys |-> keys, id |-> pos - 1, data |-> pos - 1]

Tasks == 1..Len(items)

\* do_api_call, lines 27-32: the dict built when the call succeeds on attempt k
\* (timestamp stands for str(datetime.now()) of that attempt)
DoApiCallResult(i, k) ==
    [tag |-> "dict", id |-> items[i].id, status |-> "success",
     timestamp |-> k, data |-> items[i].data]

\* do_api_call, lines 25-35: attempt k on item i returns iff the simulated call
\* does not raise and both keys read on lines 28 and 31 are present
ApiCallSucceeds(i, k) ==
    /\ items[i].keys = WellFormed
    /\ k >= api_fails[i]

\* a semaphore whose acquire forgets to take the permit
SemAcquireKeepsPermit(v) == v

\* asyncio.Semaphore: acquire takes a permit, release returns one
SemAcquire(v) == v - 1

\* a release that does not give the permit back
SemReleaseKeepsPermit(v) == v

SemRelease(v) == v + 1

\* an off-by-one threshold test
ThresholdExceededLate(fc) == fc > FAILURE_THRESHOLD + 1

\* line 54: failure_count > FAILURE_THRESHOLD
ThresholdExceeded(fc) == fc > FAILURE_THRESHOLD

\* a linear backoff, 2 * _
BackoffLinear(k) == 2 * k

\* line 58: 2 ** _
Backoff(k) == 2 ^ k

\* results collected in another order than the awaitables' (last task first)
GatherReversed(rets) == [i \in 1..Len(items) |-> rets[Len(items) + 1 - i]]

\* asyncio.gather, line 67: the results in the order of the awaitables
Gather(rets) == [i \in 1..Len(items) |-> rets[i]]

ReturnedPcs == {"returned_success", "returned_circuit_open",
                "returned_tripped", "returned_exhausted"}
TerminalPcs == ReturnedPcs \cup {"raised", "cancelled"}

\* ------------------------------------------------------------------ Init
\* main, lines 78-90, then process_batch line 65-66
Init ==
    /\ config \in ConfigFiles
    /\ config_log = "none"
    /\ POOL_SIZE = DEFAULT_POOL_SIZE
    /\ RETRY_COUNT = DEFAULT_RETRY_COUNT
    /\ FAILURE_THRESHOLD = DEFAULT_FAILURE_THRESHOLD
    /\ \E n \in 1..MaxItems :
         \E ks \in [1..n -> KeySets] :
            items = [i \in 1..n |-> Item(i, ks[i])]
    /\ api_fails \in [1..Len(items) ->
                        0..ConfigGet(config, "retry_count", DEFAULT_RETRY_COUNT)]
    /\ \A i \in 1..Len(items) : items[i].keys # WellFormed => api_fails[i] = 0
    /\ sem = 0
    /\ pc = [i \in 1..Len(items) |-> "start"]
    /\ attempt = [i \in 1..Len(items) |-> 0]
    /\ failure_count = [i \in 1..Len(items) |-> 0]
    /\ circuit_open = [i \in 1..Len(items) |-> FALSE]
    /\ ret = [i \in 1..Len(items) |-> None]
    /\ calls = [i \in 1..Len(items) |-> 0]
    /\ sleeps = [i \in 1..Len(items) |-> <<>>]
    /\ trip_logs = 0
    /\ pb = "loading"
    /\ results = <<>>
    /\ main_out = "none"
    /\ saved = <<>>

\* main, lines 76-93, and process_batch, lines 65-67, up to the await of gather:
\* the config is loaded, the semaphore and the tasks are created. A missing
\* file and undecodable text leave the defaults; on JSON that is no object
\* config.get raises AttributeError, which neither except clause catches, so
\* main ends without running the batch.
LoadConfig ==
    /\ pb = "loading"
    /\ config_log' = IF config.kind = "missing" THEN "warning"
                     ELSE IF config.kind = "invalid_json" THEN "error"
                     ELSE "none"
    /\ POOL_SIZE' = ConfigGet(config, "pool_size", POOL_SIZE)
    /\ RETRY_COUNT' = ConfigGet(config, "retry_count", RETRY_COUNT)
    /\ FAILURE_THRESHOLD' = ConfigGet(config, "failure_threshold", FAILURE_THRESHOLD)
    /\ IF config.kind = "not_object"
       THEN /\ pb' = "not_run"
            /\ main_out' = "crashed"
            /\ sem' = sem
       ELSE /\ pb' = "running"
            /\ main_out' = main_out
            /\ sem' = POOL_SIZE'
    /\ UNCHANGED <<config, items, api_fails, pc, attempt, failure_count,
                   circuit_open, ret, calls, sleeps, trip_logs, results, saved>>

\* --------------------------------------------------------------- actions
\* a loop that runs one iteration too many, range(RETRY_COUNT + 1)
LoopStepOneMore(i, k) ==
    IF k <= RETRY_COUNT
    THEN /\ attempt' = [attempt EXCEPT ![i] = k]
         /\ pc' = [pc EXCEPT ![i] = "acquire"]
         /\ ret' = ret
    ELSE /\ attempt' = attempt
         /\ IF "id" \in items[i].keys
            THEN /\ pc' = [pc EXCEPT ![i] = "returned_exhausted"]
                 /\ ret' = [ret EXCEPT ![i] = None]
            ELSE /\ pc' = [pc EXCEPT ![i] = "raised"]
                 /\ ret' = ret

\* line 43 (next iteration k of the for loop) and lines 59-60 (loop exhausted):
\* the f-string of line 59 reads item['id'] and raises KeyError without it
LoopStep(i, k) ==
    IF k < RETRY_COUNT
    THEN /\ attempt' = [attempt EXCEPT ![i] = k]
         /\ pc' = [pc EXCEPT ![i] = "acquire"]
         /\ ret' = ret
    ELSE /\ attempt' = attempt
         /\ IF "id" \in items[i].keys
            THEN /\ pc' = [pc EXCEPT ![i] = "returned_exhausted"]
                 /\ ret' = [ret EXCEPT ![i] = None]
            ELSE /\ pc' = [pc EXCEPT ![i] = "raised"]
                 /\ ret' = ret

\* lines 39-43: the task starts, sets its locals and enters the loop
Start(i) ==
    /\ pb = "running"
    /\ pc[i] = "start"
    /\ LoopStep(i, 0)
    /\ UNCHANGED <<config, config_log, POOL_SIZE, RETRY_COUNT, FAILURE_THRESHOLD,
                   items, api_fails,
                   sem, failure_count, circuit_open, calls, sleeps, trip_logs,
                   pb, results>>
    /\ UNCHANGED <<main_out, saved>>

\* lines 45-49: async with sem, the circuit_open test, get_session and the
\* start of do_api_call (suspends in asyncio.sleep, line 26)
Acquire(i) ==
    /\ pb = "running"
    /\ pc[i] = "acquire"
    /\ sem > 0
    /\ IF circuit_open[i]
       THEN /\ sem' = SemRelease(SemAcquire(sem))
            /\ pc' = [pc EXCEPT ![i] = "returned_circuit_open"]
            /\ ret' = [ret EXCEPT ![i] = None]
            /\ calls' = calls
       ELSE /\ sem' = SemAcquire(sem)
            /\ pc' = [pc EXCEPT ![i] = "call"]
            /\ ret' = ret
            /\ calls' = [calls EXCEPT ![i] = @ + 1]
    /\ UNCHANGED <<config, config_log, POOL_SIZE, RETRY_COUNT, FAILURE_THRESHOLD,
                   items, api_fails,
                   attempt, failure_count, circuit_open, sleeps, trip_logs,
                   pb, results>>
    /\ UNCHANGED <<main_out, saved>>

\* line 50 without its return: the result is kept but the loop goes on
ApiCallReturnsNoReturn(i) ==
    /\ pb = "running"
    /\ pc[i] = "call"
    /\ ApiCallSucceeds(i, attempt[i])
    /\ sem' = SemRelease(sem)
    /\ LoopStep(i, attempt[i] + 1)
    /\ UNCHANGED <<config, config_log, POOL_SIZE, RETRY_COUNT, FAILURE_THRESHOLD,
                   items, api_fails,
                   failure_count, circuit_open, calls, sleeps,
                   trip_logs, pb, results>>
    /\ UNCHANGED <<main_out, saved>>

\* lines 27-32 and 50: do_api_call returns, the permit is released, the task returns
ApiCallReturns(i) ==
    /\ pb = "running"
    /\ pc[i] = "call"
    /\ ApiCallSucceeds(i, attempt[i])
    /\ sem' = SemRelease(sem)
    /\ ret' = [ret EXCEPT ![i] = DoApiCallResult(i, attempt[i])]
    /\ pc' = [pc EXCEPT ![i] = "returned_success"]
    /\ UNCHANGED <<config, config_log, POOL_SIZE, RETRY_COUNT, FAILURE_THRESHOLD,
                   items, api_fails,
                   attempt, failure_count, circuit_open, calls, sleeps,
                   trip_logs, pb, results>>
    /\ UNCHANGED <<main_out, saved>>

\* the handler without the return of line 57: after opening the circuit the
\* task goes on to the sleep of line 58
ApiCallRaisesNoReturn(i) ==
    /\ pb = "running"
    /\ pc[i] = "call"
    /\ ~ApiCallSucceeds(i, attempt[i])
    /\ sem' = SemRelease(sem)
    /\ failure_count' = [failure_count EXCEPT ![i] = @ + 1]
    /\ IF ThresholdExceeded(failure_count'[i])
       THEN /\ circuit_open' = [circuit_open EXCEPT ![i] = TRUE]
            /\ trip_logs' = trip_logs + 1
       ELSE /\ circuit_open' = circuit_open
            /\ trip_logs' = trip_logs
    /\ ret' = ret
    /\ pc' = [pc EXCEPT ![i] = "sleep"]
    /\ sleeps' = [sleeps EXCEPT ![i] = Append(@, Backoff(attempt[i]))]
    /\ UNCHANGED <<config, config_log, POOL_SIZE, RETRY_COUNT, FAILURE_THRESHOLD,
                   items, api_fails,
                   attempt, calls, pb, results>>
    /\ UNCHANGED <<main_out, saved>>

\* lines 51-58: do_api_call raises, the permit is released, the handler counts
\* the failure, tests the threshold and either returns None or starts the sleep
ApiCallRaises(i) ==
    /\ pb = "running"
    /\ pc[i] = "call"
    /\ ~ApiCallSucceeds(i, attempt[i])
    /\ sem' = SemRelease(sem)
    /\ failure_count' = [failure_count EXCEPT ![i] = @ + 1]
    /\ IF ThresholdExceeded(failure_count'[i])
       THEN /\ circuit_open' = [circuit_open EXCEPT ![i] = TRUE]
            /\ trip_logs' = trip_logs + 1
            /\ ret' = [ret EXCEPT ![i] = None]
            /\ pc' = [pc EXCEPT ![i] = "returned_tripped"]
            /\ sleeps' = sleeps
       ELSE /\ circuit_open' = circuit_open
            /\ trip_logs' = trip_logs
            /\ ret' = ret
            /\ pc' = [pc EXCEPT ![i] = "sleep"]
            /\ sleeps' = [sleeps EXCEPT ![i] = Append(@, Backoff(attempt[i]))]
    /\ UNCHANGED <<config, config_log, POOL_SIZE, RETRY_COUNT, FAILURE_THRESHOLD,
                   items, api_fails,
                   attempt, calls, pb, results>>
    /\ UNCHANGED <<main_out, saved>>

\* line 58 completes: next loop iteration, or lines 59-60
Wake(i) ==
    /\ pb = "running"
    /\ pc[i] = "sleep"
    /\ LoopStep(i, attempt[i] + 1)
    /\ UNCHANGED <<config, config_log, POOL_SIZE, RETRY_COUNT, FAILURE_THRESHOLD,
                   items, api_fails,
                   sem, failure_count, circuit_open, calls, sleeps, trip_logs,
                   pb, results>>
    /\ UNCHANGED <<main_out, saved>>

\* line 67: every task returned, gather returns their values; main goes on
\* with lines 94-99: it filters the list and saves it or warns
GatherReturns ==
    /\ pb = "running"
    /\ \A i \in Tasks : pc[i] \in ReturnedPcs
    /\ pb' = "returned"
    /\ results' = Gather(ret)
    /\ IF FilterResults(results') # <<>>
       THEN /\ saved' = FilterResults(results')
            /\ main_out' = "saved"
       ELSE /\ saved' = saved
            /\ main_out' = "warned"
    /\ UNCHANGED <<config, config_log, POOL_SIZE, RETRY_COUNT, FAILURE_THRESHOLD,
                   items, api_fails,
                   sem, pc, attempt, failure_count, circuit_open, ret, calls,
                   sleeps, trip_logs>>

\* line 67: gather (return_exceptions=False) raises as soon as a task has raised,
\* and the except clause of main (lines 101-102) logs the failure
\* (the event loop runs the first step of every task gather created before it
\* runs the callback that makes gather raise)
GatherRaises ==
    /\ pb = "running"
    /\ \E i \in Tasks : pc[i] = "raised"
    /\ \A i \in Tasks : pc[i] # "start"
    /\ pb' = "raised"
    /\ main_out' = "failed"
    /\ saved' = saved
    /\ UNCHANGED <<config, config_log, POOL_SIZE, RETRY_COUNT, FAILURE_THRESHOLD,
                   items, api_fails,
                   sem, pc, attempt, failure_count, circuit_open, ret, calls,
                   sleeps, trip_logs, results>>

\* line 106: main has returned; asyncio.run cancels
\* the tasks still pending (a task cancelled inside "async with sem" releases)
CancelPending ==
    /\ pb = "raised"
    /\ \E i \in Tasks : pc[i] \notin TerminalPcs
    /\ sem' = sem + Cardinality({i \in Tasks : pc[i] = "call"})
    /\ pc' = [i \in Tasks |-> IF pc[i] \in TerminalPcs THEN pc[i] ELSE "cancelled"]
    /\ UNCHANGED <<config, config_log, POOL_SIZE, RETRY_COUNT, FAILURE_THRESHOLD,
                   items, api_fails,
                   attempt, failure_count, circuit_open, ret, calls, sleeps,
                   trip_logs, pb, results>>
    /\ UNCHANGED <<main_out, saved>>

Next ==
    \/ LoadConfig
    \/ \E i \in Tasks : Start(i)
    \/ \E i \in Tasks : Acquire(i)
    \/ \E i \in Tasks : ApiCallReturns(i)
    \/ \E i \in Tasks : ApiCallRaises(i)
    \/ \E i \in Tasks : Wake(i)
    \/ GatherReturns
    \/ GatherRaises
    \/ CancelPending

Spec == Init /\ [][Next]_vars

\* the event loop runs every callback that is ready: a step that can be taken
\* is eventually taken
FairSpec == Spec /\ WF_vars(Next)

\* ------------------------------------------------------- derived values
RECURSIVE SumUpTo(_, _)
SumUpTo(f, n) == IF n = 0 THEN 0 ELSE f[n] + SumUpTo(f, n - 1)

\* failures recorded (line 52) and calls started (line 49) by all tasks together
TotalFailures == SumUpTo(failure_count, Len(items))
TotalCalls == SumUpTo(calls, Len(items))

\* do_api_call calls started and not yet completed
InFlight == Cardinality({i \in Tasks : pc[i] = "call"})

\* the External Operation fails on every attempt the loop can make for item i
AllAttemptsFail(i) == \A k \in 0..(RETRY_COUNT - 1) : ~ApiCallSucceeds(i, k)

\* the value lines 48 and 57 return for a rejected item
RejectedValue == None

\* ---------------------------------------------------------------- claims

\* C1: in every reachable state the number of do_api_call calls started and
\* not yet completed is at most POOL_SIZE.
C1_InFlightBounded == InFlight <= POOL_SIZE

\* C1 witness: the pool is exhausted while another task waits for a permit.
C1_Witness ==
    /\ InFlight = POOL_SIZE
    /\ \E i \in Tasks : pc[i] = "acquire"

\* C2 (as claimed, for RETRY_COUNT >= 1): the returned sequence has the length of the input and its
\* i-th entry carries the id of the i-th item, whatever the outcome.
C2_Claimed ==
    (RETRY_COUNT >= 1 /\ pb = "returned") =>
        /\ Len(results) = Len(items)
        /\ \A i \in Tasks :
              "id" \in items[i].keys =>
                  /\ results[i].tag = "dict"
                  /\ results[i].id = items[i].id

\* C3 (as claimed): when the External Operation always fails, the breaker is
\* OPEN for every task once T+1 failures are recorded across all items, and
\* after that no call starts, no backoff starts and no item ends as Failure.
C3_Claimed ==
    [][ ((\A i \in Tasks : AllAttemptsFail(i)) /\ TotalFailures > FAILURE_THRESHOLD) =>
          /\ \A i \in Tasks : circuit_open[i]
          /\ \A i \in Tasks :
                pc'[i] # pc[i] => pc'[i] \notin {"call", "sleep", "returned_exhausted"}
      ]_vars

\* C4 (as claimed): once a failure count exceeds FAILURE_THRESHOLD the circuit
\* is OPEN and stays OPEN, and no attempt of any item starts a call: an attempt
\* that gets its permit ends its item as Rejected.
C4_Claimed ==
    [][ (\E i \in Tasks : failure_count[i] > FAILURE_THRESHOLD) =>
          /\ \E i \in Tasks : circuit_open[i] /\ circuit_open'[i]
          /\ \A j \in Tasks :
                (pc[j] = "acquire" /\ pc'[j] # "acquire") =>
                    pc'[j] \in {"returned_circuit_open", "cancelled"}
      ]_vars

\* C5: after every step, a task's failure_count above FAILURE_THRESHOLD implies
\* its circuit_open; the count changes only by +1, in the same step that tests
\* the threshold and sets the flag; the count never decreases.
C5_AtomicTrip ==
    [][ \A i \in Tasks :
          /\ failure_count'[i] >= failure_count[i]
          /\ failure_count'[i] > FAILURE_THRESHOLD => circuit_open'[i]
          /\ failure_count'[i] # failure_count[i] =>
                /\ failure_count'[i] = failure_count[i] + 1
                /\ circuit_open'[i] <=> (failure_count'[i] > FAILURE_THRESHOLD)
      ]_vars

\* C5 witness: a task has counted past the threshold and its circuit is open.
C5_Witness ==
    \E i \in Tasks :
        /\ failure_count[i] = FAILURE_THRESHOLD + 1
        /\ circuit_open[i]
        /\ pc[i] = "returned_tripped"

\* C6: an item whose call fails on attempts 0..j-1 and succeeds on attempt j
\* (j < RETRY_COUNT, not tripped) never makes more than j+1 calls and returns
\* after exactly j+1 calls, having slept 2^0 .. 2^(j-1), with the success
\* result of attempt j.
C6_RetryThenSuccess ==
    \A i \in Tasks :
        (/\ items[i].keys = WellFormed
         /\ api_fails[i] < RETRY_COUNT
         /\ api_fails[i] <= FAILURE_THRESHOLD) =>
            /\ calls[i] <= api_fails[i] + 1
            /\ pc[i] \in ReturnedPcs =>
                  /\ pc[i] = "returned_success"
                  /\ calls[i] = api_fails[i] + 1
                  /\ Len(sleeps[i]) = api_fails[i]
                  /\ \A k \in 1..api_fails[i] : sleeps[i][k] = 2 ^ (k - 1)
                  /\ ret[i].tag = "dict"
                  /\ ret[i].status = "success"
                  /\ ret[i].timestamp = api_fails[i]
                  /\ ret[i].id = items[i].id
                  /\ ret[i].data = items[i].data

\* C6 witness: an item failed on attempts 0 and 1, slept 1 then 2, and
\* succeeded on its third call.
C6_Witness ==
    \E i \in Tasks :
        /\ api_fails[i] = 2
        /\ pc[i] = "returned_success"
        /\ calls[i] = 3
        /\ sleeps[i] = <<1, 2>>

\* C7 (as claimed, for RETRY_COUNT >= 1): an item that fails on all RETRY_COUNT attempts without
\* tripping makes exactly RETRY_COUNT calls and ends with a Failure outcome
\* whose value differs from the Rejected one, and the batch does not raise.
C7_Claimed ==
    \A i \in Tasks :
        (/\ AllAttemptsFail(i)
         /\ RETRY_COUNT >= 1
         /\ RETRY_COUNT <= FAILURE_THRESHOLD
         /\ pc[i] \in ReturnedPcs \cup {"raised"}) =>
            /\ calls[i] = RETRY_COUNT
            /\ pc[i] = "returned_exhausted"
            /\ ret[i] # RejectedValue
            /\ pb # "raised"

\* what C8 asserts of a batch whose External Operation always succeeds
AlwaysSucceeds == \A i \in Tasks : items[i].keys = WellFormed /\ api_fails[i] = 0

OneCallOneSuccessEach ==
    /\ \A i \in Tasks :
          failure_count[i] = 0 /\ ~circuit_open[i] /\ calls[i] <= 1
    /\ trip_logs = 0
    /\ pb # "raised"
    /\ pb = "returned" =>
          /\ Len(results) = Len(items)
          /\ TotalCalls = Len(items)
          /\ \A i \in Tasks :
                /\ calls[i] = 1
                /\ results[i].tag = "dict"
                /\ results[i].status = "success"
                /\ results[i].id = items[i].id

\* C8 (as claimed): when the External Operation always succeeds no failure is
\* recorded, no circuit opens, the batch does not raise, and the returned list
\* holds one Success per item after exactly one call each.
C8_Claimed == AlwaysSucceeds => OneCallOneSuccessEach

\* C8 (amended): the same, for a configuration with RETRY_COUNT >= 1.
C8_AllSucceed == (AlwaysSucceeds /\ RETRY_COUNT >= 1) => OneCallOneSuccessEach

\* C8 witness: a batch of at least two items, all calls succeeding, has returned.
C8_Witness ==
    /\ Len(items) >= 2
    /\ RETRY_COUNT >= 1
    /\ AlwaysSucceeds
    /\ pb = "returned"
    /\ TotalCalls = Len(items)

\* C9 (as claimed, for RETRY_COUNT >= 1): the KeyError of a malformed item is not counted, not
\* retried and not followed by a sleep; the item never returns an outcome, and
\* process_batch does not return normally.
C9_Claimed ==
    \A i \in Tasks :
        (RETRY_COUNT >= 1 /\ items[i].keys # WellFormed) =>
            /\ failure_count[i] = 0
            /\ calls[i] <= 1
            /\ sleeps[i] = <<>>
            /\ pc[i] \notin ReturnedPcs
            /\ pb # "returned"

\* C10 (as claimed): process_batch has returned or raised only when every item
\* task is in a terminal state.
C10_Claimed ==
    pb \in {"returned", "raised"} => \A i \in Tasks : pc[i] \in TerminalPcs

\* ------------------------------------- what the inputs of one item determine
\* failing attempts of item i before its call returns or the loop ends
FailingAttempts(i) ==
    IF items[i].keys = WellFormed /\ api_fails[i] < RETRY_COUNT
    THEN api_fails[i]
    ELSE RETRY_COUNT

\* lines 43-60 run for item i alone: how the task ends, its calls, its value
ExpectedPc(i) ==
    IF FailingAttempts(i) > FAILURE_THRESHOLD THEN "returned_tripped"
    ELSE IF FailingAttempts(i) < RETRY_COUNT THEN "returned_success"
    ELSE IF "id" \in items[i].keys THEN "returned_exhausted"
    ELSE "raised"

ExpectedCalls(i) ==
    IF FailingAttempts(i) > FAILURE_THRESHOLD THEN FAILURE_THRESHOLD + 1
    ELSE IF FailingAttempts(i) < RETRY_COUNT THEN FailingAttempts(i) + 1
    ELSE RETRY_COUNT

ExpectedRet(i) ==
    IF ExpectedPc(i) = "returned_success"
    THEN [tag |-> "dict", id |-> items[i].id, status |-> "success",
          timestamp |-> api_fails[i], data |-> items[i].data]
    ELSE None

\* C11 (as claimed): an item whose attempts all fail without tripping leaves
\* every sibling as it would be without it: a sibling that has ended has ended
\* the way its own inputs determine, with the calls they determine.
C11_Claimed ==
    \A j \in Tasks :
        (/\ AllAttemptsFail(j)
         /\ RETRY_COUNT >= 1
         /\ RETRY_COUNT <= FAILURE_THRESHOLD
         /\ pc[j] \in {"returned_exhausted", "raised"}) =>
            \A i \in Tasks \ {j} :
                pc[i] \in TerminalPcs =>
                    /\ pc[i] = ExpectedPc(i)
                    /\ calls[i] = ExpectedCalls(i)
                    /\ ret[i] = ExpectedRet(i)

\* C12 (as claimed): in one batch run the circuit opens at most once and the
\* trip event is logged at most once.
C12_Claimed ==
    /\ trip_logs <= 1
    /\ Cardinality({i \in Tasks : circuit_open[i]}) <= 1

\* C13: the permits taken from the semaphore are exactly those of the tasks
\* inside their call: a task that sleeps, waits or has ended holds none, and
\* all POOL_SIZE permits are free once every task has ended.
C13_PermitsHeldOnlyInCall ==
    pb \in {"running", "returned", "raised"} =>
        /\ sem >= 0
        /\ sem + InFlight = POOL_SIZE
        /\ (\A i \in Tasks : pc[i] \in TerminalPcs) => sem = POOL_SIZE
        /\ pb = "returned" => sem = POOL_SIZE

\* C13 witness: one task sleeps in backoff after a failed call while another
\* is inside its call, and only that one permit is taken.
C13_Witness ==
    \E i, j \in Tasks :
        /\ pc[i] = "sleep"
        /\ pc[j] = "call"
        /\ sem = POOL_SIZE - 1

\* C14 (as claimed): no backoff sleep follows the last attempt, so an
\* exhausted item has slept exactly RETRY_COUNT - 1 times.
C14_Claimed ==
    \A i \in Tasks :
        RETRY_COUNT >= 1 =>
            /\ ~(pc[i] = "sleep" /\ attempt[i] = RETRY_COUNT - 1)
            /\ pc[i] = "returned_exhausted" => Len(sleeps[i]) = RETRY_COUNT - 1

\* C15: the step in which a task's failure count passes FAILURE_THRESHOLD ends
\* the task with the rejected value and without a sleep, and the task makes no
\* call and no sleep afterwards.
C15_TripEndsItem ==
    [][ \A i \in Tasks :
          /\ (failure_count'[i] # failure_count[i]
              /\ failure_count'[i] > FAILURE_THRESHOLD) =>
                /\ pc'[i] = "returned_tripped"
                /\ ret'[i] = RejectedValue
                /\ sleeps'[i] = sleeps[i]
                /\ calls'[i] = calls[i]
          /\ failure_count[i] > FAILURE_THRESHOLD =>
                /\ pc'[i] = pc[i]
                /\ sleeps'[i] = sleeps[i]
                /\ calls'[i] = calls[i]
      ]_vars

\* C15 witness: a task was ended by its trip while attempt indices remained.
C15_Witness ==
    \E i \in Tasks :
        /\ pc[i] = "returned_tripped"
        /\ attempt[i] < RETRY_COUNT - 1
        /\ calls[i] = FAILURE_THRESHOLD + 1
        /\ Len(sleeps[i]) = FAILURE_THRESHOLD

\* C19: after every step each item has made at most RETRY_COUNT calls, the
\* batch at most Len(items) * RETRY_COUNT; an item that has returned a Success
\* makes no further call; with RETRY_COUNT = 0 no call is made and no item
\* succeeds.
C19_CallsBounded ==
    [][ /\ TotalCalls' <= Len(items') * RETRY_COUNT'
        /\ \A i \in Tasks :
              /\ calls'[i] <= RETRY_COUNT'
              /\ pc[i] = "returned_success" => calls'[i] = calls[i]
              /\ RETRY_COUNT' = 0 => (calls'[i] = 0 /\ pc'[i] # "returned_success")
      ]_vars

\* C19 witness: an item has used all RETRY_COUNT = 3 calls, succeeding on the last.
C19_Witness ==
    \E i \in Tasks :
        /\ RETRY_COUNT = DEFAULT_RETRY_COUNT
        /\ calls[i] = RETRY_COUNT
        /\ pc[i] = "returned_success"

RECURSIVE SuccessesUpTo(_)
SuccessesUpTo(n) ==
    IF n = 0 THEN <<>>
    ELSE IF pc[n] = "returned_success"
         THEN Append(SuccessesUpTo(n - 1), ret[n])
         ELSE SuccessesUpTo(n - 1)

\* C16: main saves exactly the Success outcomes of the batch, in input order;
\* it saves if and only if at least one item succeeded and warns "No items
\* processed successfully" otherwise; a batch of items as main builds them
\* (line 90) never takes the failure path.
C16_SavesSuccessesOnly ==
    /\ pb = "returned" =>
          /\ saved = SuccessesUpTo(Len(items))
          /\ main_out = "saved" <=> (\E i \in Tasks : pc[i] = "returned_success")
          /\ main_out = "warned" <=> (\A i \in Tasks : pc[i] # "returned_success")
    /\ pb # "returned" => (saved = <<>> /\ main_out \notin {"saved", "warned"})
    /\ (\A i \in Tasks : items[i].keys = WellFormed) => main_out # "failed"

\* C16 witness: of two items one failed and one succeeded, and main saved the
\* one success.
C16_Witness ==
    /\ pb = "returned"
    /\ main_out = "saved"
    /\ Len(items) = 2
    /\ results[1] = None
    /\ saved = <<results[2]>>

\* C17 (as claimed): a missing or malformed config.json (undecodable, or JSON
\* that is no object) leaves the three defaults, logs a line and does not keep
\* the batch from running; a key absent from an object keeps its default.
C17_Claimed ==
    pb # "loading" =>
        /\ config.kind # "object" =>
              /\ POOL_SIZE = DEFAULT_POOL_SIZE
              /\ RETRY_COUNT = DEFAULT_RETRY_COUNT
              /\ FAILURE_THRESHOLD = DEFAULT_FAILURE_THRESHOLD
              /\ config_log # "none"
              /\ pb # "not_run"
        /\ config.kind = "object" =>
              /\ "pool_size" \notin DOMAIN config.obj => POOL_SIZE = DEFAULT_POOL_SIZE
              /\ "retry_count" \notin DOMAIN config.obj => RETRY_COUNT = DEFAULT_RETRY_COUNT
              /\ "failure_threshold" \notin DOMAIN config.obj =>
                    FAILURE_THRESHOLD = DEFAULT_FAILURE_THRESHOLD
              /\ pb # "not_run"

\* C18 (as claimed): under a fair event loop a batch that runs leads to
\* process_batch returning, with every item task ended in an outcome.
C18_Claimed ==
    (pb = "running") ~>
        (pb = "returned" /\ \A i \in Tasks : pc[i] \in ReturnedPcs)

====
